---- MODULE Spec2Model ----
(***************************************************************************)
(* Crawl frontier, idle-refill scheduling and ingestion pipeline of the    *)
(* Nankai crawler: the spiders nku_es_fed_incremental and nku_es_fed, and  *)
(* the item pipelines DataCleaning -> Duplicates -> Elasticsearch -> File. *)
(* Several crawler processes share one Redis set (crawled_urls) and one    *)
(* Elasticsearch index (nku_webpages).  A step of the model is one remote  *)
(* call or one callback of one process; the pipeline stages of one item    *)
(* run in the order of ITEM_PIPELINES.                                     *)
(***************************************************************************)
EXTENDS Integers, Sequences, FiniteSets, TLC

(* ------------------------------ bounds -------------------------------- *)
\* infrastructure failures injected in one behaviour: a Redis, ES or file
\* call raising, or the start of a process during an outage (any of its four
\* clients could not be created)
MaxFaults == 1
\* fetch_urls_from_es calls of one process
MaxFills == 3
\* the entries of content_selectors (10 in the source), scaled down
NumSelectors == 3
\* the characters of a text handed to clean_text
MaxTextLen == 3
\* self.crawl_batch_size (1000 in the source), scaled down
crawl_batch_size == 2

\* the crawler processes running against the same Redis and Elasticsearch
Instances == {1, 2}

(* ------------------------------- URLs --------------------------------- *)
\* The pages of the modelled web.  A URL is named by its string; Parts gives
\* what urlparse and the regular expressions see of it.
SEED  == "https://www.nankai.edu.cn/"
PAGE  == "https://a.nankai.edu.cn/x"
PDF   == "https://a.nankai.edu.cn/y.pdf"
FILES == "https://b.nankai.edu.cn/files/z"
OFF   == "https://evilnankai.edu.cn/p"
MOVED == "http://a.nankai.edu.cn/old"
MAIL  == "mailto:info@nankai.edu.cn"

URLS == {SEED, PAGE, PDF, FILES, OFF, MOVED}

Parts(u) ==
  CASE u = SEED  -> [scheme |-> "https", host |-> <<"www", "nankai", "edu", "cn">>,
                     port |-> "", dirs |-> <<>>, leaf |-> "", ext |-> ""]
    [] u = PAGE  -> [scheme |-> "https", host |-> <<"a", "nankai", "edu", "cn">>,
                     port |-> "", dirs |-> <<>>, leaf |-> "x", ext |-> ""]
    [] u = PDF   -> [scheme |-> "https", host |-> <<"a", "nankai", "edu", "cn">>,
                     port |-> "", dirs |-> <<>>, leaf |-> "y", ext |-> "pdf"]
    [] u = FILES -> [scheme |-> "https", host |-> <<"b", "nankai", "edu", "cn">>,
                     port |-> "", dirs |-> <<"files">>, leaf |-> "z", ext |-> ""]
    [] u = OFF   -> [scheme |-> "https", host |-> <<"evilnankai", "edu", "cn">>,
                     port |-> "", dirs |-> <<>>, leaf |-> "p", ext |-> ""]
    [] u = MOVED -> [scheme |-> "http", host |-> <<"a", "nankai", "edu", "cn">>,
                     port |-> "", dirs |-> <<>>, leaf |-> "old", ext |-> ""]
    [] OTHER     -> [scheme |-> "mailto", host |-> <<>>,
                     port |-> "", dirs |-> <<>>, leaf |-> "", ext |-> ""]

\* <a href> targets on the page served at u
Links(u) ==
  CASE u = SEED -> {PAGE, PDF, FILES, OFF, MOVED, MAIL}
    [] u = PAGE -> {SEED, PDF}
    [] OTHER    -> {}

\* response.url: the URL of the response after redirects
FinalUrl(u) == IF u = MOVED THEN PAGE ELSE u

\* whether the download succeeds with a text response parse can select on:
\* the PDF is no text response, the other two answer 404
IsHtml(u) == u \notin {PDF, FILES, OFF}

(* --------------------------- pure helpers ------------------------------ *)
\* hashlib.md5(url.encode("utf-8")).hexdigest(): one digest per URL string
Md5(u) == <<"md5", u>>

\* target_url.startswith(('http://', 'https://'))
IsHttp(u) == Parts(u).scheme \in {"http", "https"}

Suffix(s, n) == SubSeq(s, Len(s) - n + 1, Len(s))

allowed_domains == {<<"nankai", "edu", "cn">>}

\* a string of labels and separators: the labels joined by "."
RECURSIVE Dotted(_)
Dotted(labels) ==
  IF Len(labels) <= 1 THEN labels
  ELSE <<Head(labels), ".">> \o Dotted(Tail(labels))

\* urlparse(url).netloc: [userinfo@]host[:port]
Netloc(userinfo, host, port) ==
  (IF userinfo = "" THEN <<>> ELSE <<userinfo, "@">>)
    \o Dotted(host)
    \o (IF port = "" THEN <<>> ELSE <<":", port>>)

\* str.endswith
EndsWith(s, t) == Len(s) >= Len(t) /\ Suffix(s, Len(t)) = t

\* netloc and any(netloc == domain or netloc.endswith("." + domain) ...)
NetlocAllowed(netloc) ==
  /\ Len(netloc) > 0
  /\ \E d \in allowed_domains :
       netloc = Dotted(d) \/ EndsWith(netloc, <<".">> \o Dotted(d))

\* the in-scope test on a URL of the modelled web (none has a userinfo part)
InAllowedDomains(u) == NetlocAllowed(Netloc("", Parts(u).host, Parts(u).port))

\* r".*\.pdf$" ... r".*\.rar$"
deny_extensions == {"pdf", "doc", "docx", "xls", "xlsx", "ppt", "pptx", "zip", "rar"}
\* r"/download/", r"/files/", r"/uploads/"
deny_directories == {"download", "files", "uploads"}

\* _is_url_denied: some deny pattern is found in the URL
IsUrlDenied(u) ==
  \/ Parts(u).ext \in deny_extensions
  \/ \E k \in 1..Len(Parts(u).dirs) : Parts(u).dirs[k] \in deny_directories

\* extract_anchor_texts: the hrefs stored in the item's anchor_texts
AnchorHrefs(u) == {l \in Links(u) : IsHttp(l)}

\* self.link_extractor.extract_links(response): allow_domains and deny
LinkExtractorLinks(u) ==
  {l \in Links(u) : IsHttp(l) /\ InAllowedDomains(l) /\ ~IsUrlDenied(l)}

(* ------------------------------- state -------------------------------- *)
VARIABLES
  seen,                 \* the Redis set "crawled_urls" (shared)
  index,                \* the documents of the index nku_webpages (shared)
  fallback,             \* the setting START_URLS_FALLBACK
  faults,               \* infrastructure failures injected so far
  kind,                 \* the spider each process runs
  phase,                \* "new", "starting", "running", "closed"
  redis_client,         \* spider.redis_client is not None
  es_client,            \* spider.es_client is not None
  pipe_redis,           \* DuplicatesPipeline.redis_client is not None
  pipe_es,              \* ElasticsearchPipeline.es is not None
  seen_urls,            \* DuplicatesPipeline.seen_urls (local fallback set)
  urls_to_crawl_batch,  \* spider.urls_to_crawl_batch
  startPending,         \* requests start_requests has still to yield
  queue,                \* requests scheduled or being downloaded
  fingerprints,         \* the scheduler's duplicate filter: URLs ever requested
  item,                 \* url of the item in the pipeline (the response parsed)
  stage,                \* next pipeline stage of that item
  written,              \* outcome of ElasticsearchPipeline for that item
  log,                  \* per URL, the lines FilePipeline wrote for it
  fills,                \* per fill attempt: was the batch empty
  lastBatch,            \* the batch of the latest fill attempt
  call                  \* a helper method called on its own: name, input, result

shared == <<seen, index, fallback, faults, call>>
clients == <<redis_client, es_client, pipe_redis, pipe_es>>
sched == <<urls_to_crawl_batch, startPending, queue, fingerprints>>
pipeline == <<item, stage, written, log, seen_urls>>
history == <<fills, lastBatch>>
vars == <<shared, kind, phase, clients, sched, pipeline, history>>

NoCall == [fn |-> "none", arg |-> <<>>, out |-> <<>>]

NoItem == "none"
\* item.get("url") of an item without the field, or with an empty one
NoUrl == ""
INCREMENTAL == "nku_es_fed_incremental"
FED == "nku_es_fed"

Init ==
  /\ seen = {}
  /\ index = {}
  /\ fallback \in {{}, {SEED}}
  /\ faults = 0
  /\ kind \in {k \in [Instances -> {INCREMENTAL, FED}] : k[1] = INCREMENTAL}
  /\ phase = [i \in Instances |-> "new"]
  /\ redis_client = [i \in Instances |-> FALSE]
  /\ es_client = [i \in Instances |-> FALSE]
  /\ pipe_redis = [i \in Instances |-> FALSE]
  /\ pipe_es = [i \in Instances |-> FALSE]
  /\ seen_urls = [i \in Instances |-> {}]
  /\ urls_to_crawl_batch = [i \in Instances |-> {}]
  /\ startPending = [i \in Instances |-> {}]
  /\ queue = [i \in Instances |-> {}]
  /\ fingerprints = [i \in Instances |-> {}]
  /\ item = [i \in Instances |-> NoItem]
  /\ stage = [i \in Instances |-> "none"]
  /\ written = [i \in Instances |-> "none"]
  /\ log = [i \in Instances |-> [u \in URLS |-> 0]]
  /\ fills = [i \in Instances |-> <<>>]
  /\ lastBatch = [i \in Instances |-> {}]
  /\ call = NoCall

(* ----------------------- failures of the stores ----------------------- *)
\* a call or connection that fails (ok = FALSE) is one injected failure
Count(ok) == IF ok THEN 0 ELSE 1
Inject(n) == /\ faults + n <= MaxFaults
             /\ faults' = faults + n

(* ------------------------ spider helper methods ------------------------ *)
IsUrlSeenClosed(client, callOk, u) == ~client \/ ~callOk \/ Md5(u) \in seen
\* _is_url_seen: False without a client or when sismember raises
IsUrlSeen(client, callOk, u) == client /\ callOk /\ Md5(u) \in seen

\* the hrefs of the anchor_texts of the hits
HitHrefs == UNION {d.anchor_texts : d \in index}

EsCandidatesNoDeny(client, callOk) ==
  {h \in HitHrefs : IsHttp(h) /\ ~IsUrlSeen(client, callOk, h)}
\* fetch_urls_from_es, lines 190-206: the URLs that pass the filters
EsCandidates(client, callOk) ==
  {h \in HitHrefs : IsHttp(h) /\ ~IsUrlSeen(client, callOk, h) /\ ~IsUrlDenied(h)}

\* fetch_urls_from_es: the batches one call can produce.  The hits come in
\* random order and collecting stops at crawl_batch_size URLs.
FetchUrlsFromEs(es, searchOk, client, callOk) ==
  IF ~es \/ ~searchOk
  THEN {{}}
  ELSE LET c == EsCandidates(client, callOk)
       IN  IF Cardinality(c) <= crawl_batch_size
           THEN {c}
           ELSE {b \in SUBSET c : Cardinality(b) = crawl_batch_size}

\* start_requests of nku_es_fed_incremental, lines 143-151: the fallback
IncrementalBatch(found, client, callOk) ==
  IF found = {}
  THEN {u \in fallback : ~IsUrlSeen(client, callOk, u)}
  ELSE found

\* start_requests of nku_es_fed, lines 129-198: the URLs it will yield
FedInitialUrls(es, searchOk, client, callOk) ==
  IF ~es THEN fallback
  ELSE IF ~searchOk THEN {}
  ELSE {h \in HitHrefs : IsHttp(h) /\ ~IsUrlSeen(client, callOk, h)}

KeepBatch(batch) == batch
\* self.urls_to_crawl_batch.clear()
ClearBatch(batch) == {}

\* engine.crawl(request) / a yielded Request: the scheduler enqueues it unless
\* its duplicate filter has seen the URL
EngineCrawl(i, urls) ==
  /\ queue' = [queue EXCEPT ![i] = @ \cup (urls \ fingerprints[i])]
  /\ fingerprints' = [fingerprints EXCEPT ![i] = @ \cup urls]

(* --------------------------- download, parse --------------------------- *)
\* parse, lines 255-270: the one item it yields, item["url"] = response.url
ParseItem(u) == FinalUrl(u)

\* parse of nku_es_fed, lines 224-237: the requests it yields for the links
FedParseRequests(client, callOk, url) ==
  {l \in LinkExtractorLinks(url) :
     ~IsUrlSeen(client, callOk, l) /\ InAllowedDomains(l)}

IncrementalParseRequestsYield(client, callOk, url) ==
  FedParseRequests(client, callOk, url)
\* parse of nku_es_fed_incremental, lines 273-289: the yield is commented out
IncrementalParseRequests(client, callOk, url) == {}

ParseRequests(i, callOk) ==
  IF kind[i] = INCREMENTAL
  THEN IncrementalParseRequests(redis_client[i], callOk, item[i])
  ELSE FedParseRequests(redis_client[i], callOk, item[i])

\* parse resumes after its item left the pipeline (stored or dropped): the
\* loop over the links, whose requests go to the scheduler
ResumeParse(i, callOk) ==
  /\ EngineCrawl(i, ParseRequests(i, callOk))
  /\ item' = [item EXCEPT ![i] = NoItem]
  /\ stage' = [stage EXCEPT ![i] = "none"]
  /\ written' = [written EXCEPT ![i] = "none"]

\* the Redis calls of the loop over the links can fail only where it makes any
LinksCallCanFail(i) == kind[i] = FED /\ redis_client[i]

(* ------------------------------ start-up ------------------------------- *)
\* open_spider of the pipelines, then start_requests up to its first yield:
\* the clients and the first batch
StartRequests(i) ==
  /\ phase[i] = "new"
  /\ \E pr, pe, r, e, searchOk, callOk \in BOOLEAN :
       /\ ~r => callOk
       /\ ~e => searchOk
       /\ Inject(Count(pr /\ pe /\ r /\ e) + Count(searchOk) + Count(callOk))
       /\ pipe_redis' = [pipe_redis EXCEPT ![i] = pr]
       /\ pipe_es' = [pipe_es EXCEPT ![i] = pe]
       /\ redis_client' = [redis_client EXCEPT ![i] = r]
       /\ es_client' = [es_client EXCEPT ![i] = e]
       /\ IF kind[i] = INCREMENTAL
          THEN \E found \in FetchUrlsFromEs(e, searchOk, r, callOk) :
                 LET batch == IncrementalBatch(found, r, callOk)
                 IN  /\ urls_to_crawl_batch' = [urls_to_crawl_batch EXCEPT ![i] = batch]
                     /\ startPending' = [startPending EXCEPT ![i] = batch]
                     /\ fills' = [fills EXCEPT ![i] = Append(@, batch = {})]
                     /\ lastBatch' = [lastBatch EXCEPT ![i] = batch]
                     /\ phase' = [phase EXCEPT ![i] =
                                    IF batch = {} THEN "running" ELSE "starting"]
          ELSE LET urls == FedInitialUrls(e, searchOk, r, callOk)
               IN  /\ startPending' = [startPending EXCEPT ![i] = urls]
                   /\ phase' = [phase EXCEPT ![i] =
                                  IF urls = {} THEN "running" ELSE "starting"]
                   /\ UNCHANGED <<urls_to_crawl_batch, history>>
  /\ UNCHANGED <<seen, index, fallback, call, kind, queue, fingerprints, pipeline>>

\* "for url in ...": the iteration order of the batch is fixed but arbitrary
NextStartUrl(i) == CHOOSE u \in startPending[i] : TRUE

\* the engine takes the next request of start_requests; nku_es_fed tests the
\* fallback URLs against Redis only here (lines 138-142).  After the last
\* one the generator ends: self.urls_to_crawl_batch.clear().
YieldStart(i) ==
  /\ phase[i] = "starting"
  /\ \E u \in {NextStartUrl(i)}, callOk \in BOOLEAN :
       LET lazy == kind[i] = FED /\ ~es_client[i] /\ redis_client[i]
           last == startPending[i] = {u}
       IN  /\ ~lazy => callOk
           /\ Inject(Count(callOk))
           /\ startPending' = [startPending EXCEPT ![i] = @ \ {u}]
           /\ IF lazy /\ IsUrlSeen(redis_client[i], callOk, u)
              THEN UNCHANGED <<queue, fingerprints>>
              ELSE EngineCrawl(i, {u})
           /\ phase' = [phase EXCEPT ![i] = IF last THEN "running" ELSE @]
           /\ urls_to_crawl_batch' =
                [urls_to_crawl_batch EXCEPT ![i] = IF last THEN ClearBatch(@) ELSE @]
  /\ UNCHANGED <<seen, index, fallback, call, kind, clients, pipeline, history>>

(* ------------------------------ pipeline ------------------------------- *)
AfterCleanDrop(u) == IF u = NoUrl THEN "none" ELSE "dedupe"
\* DataCleaningPipeline.process_item (priority 300) rewrites content and
\* title and returns the item, whatever its url: the next stage of the item
AfterClean(u) == "dedupe"

\* a download ends; parse runs on a text response up to its yield, and the
\* item passes DataCleaningPipeline.  A failed download or a non-text response
\* yields no item.
Fetch(i) ==
  /\ phase[i] \in {"starting", "running"}
  /\ stage[i] = "none"
  /\ \E u \in queue[i] :
       /\ queue' = [queue EXCEPT ![i] = @ \ {u}]
       /\ IF IsHtml(u)
          THEN /\ item' = [item EXCEPT ![i] = ParseItem(u)]
               /\ stage' = [stage EXCEPT ![i] = AfterClean(ParseItem(u))]
          ELSE UNCHANGED <<item, stage>>
  /\ UNCHANGED <<shared, kind, phase, clients, urls_to_crawl_batch,
                 startPending, fingerprints, written, log, seen_urls, history>>

IsDuplicateNever(i, callOk, h) == FALSE
\* DuplicatesPipeline.is_duplicate
IsDuplicate(i, callOk, h) ==
  IF pipe_redis[i] /\ callOk THEN h \in seen ELSE h \in seen_urls[i]

\* DuplicatesPipeline.process_item (priority 400), lines 104-113: an item
\* without url is dropped (DropItem) before any Redis call, a duplicate after
\* the membership test; parse resumes
DedupeCheck(i) ==
  /\ stage[i] = "dedupe"
  /\ \E callOk, linksOk \in BOOLEAN :
       /\ (~pipe_redis[i] \/ item[i] = NoUrl) => callOk
       /\ IF item[i] = NoUrl \/ IsDuplicate(i, callOk, Md5(item[i]))
          THEN /\ ~LinksCallCanFail(i) => linksOk
               /\ Inject(Count(callOk) + Count(linksOk))
               /\ ResumeParse(i, linksOk)
          ELSE /\ linksOk
               /\ Inject(Count(callOk))
               /\ stage' = [stage EXCEPT ![i] = "mark"]
               /\ UNCHANGED <<item, written, queue, fingerprints>>
  /\ UNCHANGED <<seen, index, fallback, call, kind, phase, clients, urls_to_crawl_batch,
                 startPending, log, seen_urls, history>>

MarkProcessedReplace(i, callOk, h) ==
  /\ seen' = {h}
  /\ UNCHANGED seen_urls
\* DuplicatesPipeline.mark_processed
MarkProcessed(i, callOk, h) ==
  IF pipe_redis[i] /\ callOk
  THEN /\ seen' = seen \cup {h}
       /\ UNCHANGED seen_urls
  ELSE /\ seen_urls' = [seen_urls EXCEPT ![i] = @ \cup {h}]
       /\ UNCHANGED seen

\* DuplicatesPipeline.process_item, lines 115-118
DedupeMark(i) ==
  /\ stage[i] = "mark"
  /\ \E callOk \in BOOLEAN :
       /\ ~pipe_redis[i] => callOk
       /\ Inject(Count(callOk))
       /\ MarkProcessed(i, callOk, Md5(item[i]))
  /\ stage' = [stage EXCEPT ![i] = "es"]
  /\ UNCHANGED <<index, fallback, call, kind, phase, clients, sched, item,
                 written, log, history>>

DocIdAuto(u) == <<"auto", Cardinality(index)>>
\* the document ElasticsearchPipeline builds from the item, and its id
DocId(u) == Md5(u)
Doc(u) == [id |-> DocId(u), url |-> u, anchor_texts |-> AnchorHrefs(u),
           domain |-> Parts(u).host]

\* self.es.index(index="nku_webpages", id=doc_id, document=doc)
EsIndex(idx, doc) == {d \in idx : d.id # doc.id} \cup {doc}

AfterEsWriteDrop(ok) == IF ok THEN "file" ELSE "dropped"
\* ElasticsearchPipeline.process_item, lines 271-274: the stage the item goes
\* to after the index call, whether it raised or not ("return item")
AfterEsWrite(ok) == "file"

\* ElasticsearchPipeline.process_item (priority 500)
EsWrite(i) ==
  /\ stage[i] = "es"
  /\ \E ok \in BOOLEAN :
       /\ ~pipe_es[i] => ok
       /\ Inject(Count(ok))
       /\ IF pipe_es[i] /\ ok
          THEN index' = EsIndex(index, Doc(item[i]))
          ELSE UNCHANGED index
       /\ written' = [written EXCEPT ![i] =
                        IF ~pipe_es[i] THEN "no_client"
                        ELSE IF ok THEN "ok" ELSE "failed"]
       /\ stage' = [stage EXCEPT ![i] = AfterEsWrite(pipe_es[i] /\ ok)]
  /\ UNCHANGED <<seen, fallback, call, kind, phase, clients, sched, item, log,
                 seen_urls, history>>

AfterFileWriteAbort(ok, p) == IF ok THEN p ELSE "closed"
\* FilePipeline.process_item has no handler: an exception of json.dumps or
\* file.write leaves it, the engine logs "Error processing" for the item and
\* the spider stays in the phase it is in
AfterFileWrite(ok, p) == p

\* FilePipeline.process_item (priority 600); the item has left the pipeline
\* (written or not) and parse resumes
FileWrite(i) ==
  /\ stage[i] = "file"
  /\ \E ok, linksOk \in BOOLEAN :
       /\ ~LinksCallCanFail(i) => linksOk
       /\ Inject(Count(ok) + Count(linksOk))
       /\ log' = [log EXCEPT ![i][item[i]] = IF ok THEN @ + 1 ELSE @]
       /\ phase' = [phase EXCEPT ![i] = AfterFileWrite(ok, @)]
       /\ ResumeParse(i, linksOk)
  /\ UNCHANGED <<seen, index, fallback, call, kind, clients, urls_to_crawl_batch,
                 startPending, seen_urls, history>>

(* -------------------------------- idle --------------------------------- *)
IsIdleEager(i) == phase[i] = "running"
\* the engine's idle condition: start_requests exhausted, nothing scheduled,
\* downloading or in the pipeline
IsIdle(i) == phase[i] = "running" /\ queue[i] = {} /\ stage[i] = "none"

\* spider_idle, lines 225-246: without URLs the handler returns and the
\* engine closes the spider; with URLs it raises DontCloseSpider
IdleClosesNever(i, batch) == FALSE
IdleClosesLate(i, batch) == batch = {} /\ Len(fills[i]) >= 2
IdleClosesAlways(i, batch) == TRUE
IdleCloses(i, batch) == batch = {}

\* spider_idle of nku_es_fed_incremental (connected in from_crawler)
SpiderIdle(i) ==
  /\ kind[i] = INCREMENTAL
  /\ IsIdle(i)
  /\ Len(fills[i]) < MaxFills
  /\ \E searchOk, callOk \in BOOLEAN :
       /\ ~redis_client[i] => callOk
       /\ ~es_client[i] => searchOk
       /\ Inject(Count(searchOk) + Count(callOk))
       /\ \E found \in FetchUrlsFromEs(es_client[i], searchOk, redis_client[i], callOk) :
            LET batch == urls_to_crawl_batch[i] \cup found
            IN  /\ fills' = [fills EXCEPT ![i] = Append(@, batch = {})]
                /\ lastBatch' = [lastBatch EXCEPT ![i] = batch]
                /\ IF IdleCloses(i, batch)
                   THEN /\ phase' = [phase EXCEPT ![i] = "closed"]
                        /\ UNCHANGED <<queue, fingerprints>>
                   ELSE /\ EngineCrawl(i, batch)
                        /\ UNCHANGED phase
                /\ urls_to_crawl_batch' =
                     [urls_to_crawl_batch EXCEPT ![i] = ClearBatch(batch)]
  /\ UNCHANGED <<seen, index, fallback, call, kind, clients, startPending, pipeline>>

\* nku_es_fed connects no idle handler: the engine closes the idle spider
CloseIdle(i) ==
  /\ kind[i] = FED
  /\ IsIdle(i)
  /\ phase' = [phase EXCEPT ![i] = "closed"]
  /\ UNCHANGED <<shared, kind, clients, sched, pipeline, history>>

Next ==
  \E i \in Instances :
    \/ StartRequests(i)
    \/ YieldStart(i)
    \/ Fetch(i)
    \/ DedupeCheck(i)
    \/ DedupeMark(i)
    \/ EsWrite(i)
    \/ FileWrite(i)
    \/ SpiderIdle(i)
    \/ CloseIdle(i)

Spec == Init /\ [][Next]_vars

(* ----------------- the item pipeline on arbitrary items ----------------- *)
\* the urls of the items handed to the pipeline: a page, a page already
\* stored, or no url at all
ItemUrls == {NoUrl, SEED, PAGE}

\* every process is running with an item at the first stage of ITEM_PIPELINES
PipeInit ==
  /\ seen \in SUBSET {Md5(SEED), Md5(PAGE)}
  /\ index = {Doc(u) : u \in {v \in {SEED, PAGE} : Md5(v) \in seen}}
  /\ fallback = {SEED}
  /\ faults = 0
  /\ kind \in {k \in [Instances -> {INCREMENTAL, FED}] : k[1] = INCREMENTAL}
  /\ phase = [i \in Instances |-> "running"]
  /\ redis_client = [i \in Instances |-> TRUE]
  /\ es_client = [i \in Instances |-> TRUE]
  /\ pipe_redis \in [Instances -> BOOLEAN]
  /\ pipe_es \in [Instances -> BOOLEAN]
  /\ seen_urls = [i \in Instances |-> {}]
  /\ urls_to_crawl_batch = [i \in Instances |-> {}]
  /\ startPending = [i \in Instances |-> {}]
  /\ queue = [i \in Instances |-> {}]
  /\ fingerprints = [i \in Instances |-> {}]
  /\ item \in [Instances -> ItemUrls]
  /\ stage = [i \in Instances |-> "clean"]
  /\ written = [i \in Instances |-> "none"]
  /\ log = [i \in Instances |-> [u \in URLS |-> 0]]
  /\ fills = [i \in Instances |-> <<>>]
  /\ lastBatch = [i \in Instances |-> {}]
  /\ call = NoCall

\* DataCleaningPipeline.process_item as a stage of its own
Clean(i) ==
  /\ stage[i] = "clean"
  /\ LET next == AfterClean(item[i])
     IN  /\ stage' = [stage EXCEPT ![i] = next]
         /\ item' = [item EXCEPT ![i] = IF next = "none" THEN NoItem ELSE @]
  /\ UNCHANGED <<shared, kind, phase, clients, sched, written, log, seen_urls,
                 history>>

PipeNext ==
  \E i \in Instances :
    \/ Clean(i)
    \/ DedupeCheck(i)
    \/ DedupeMark(i)
    \/ EsWrite(i)
    \/ FileWrite(i)

PipeSpec == PipeInit /\ [][PipeNext]_vars

(* ---------------- the helper methods, each called on its own ------------- *)
\* no process has started; one helper method is called on one input
FuncInit ==
  /\ Init
  /\ fallback = {SEED}
  /\ kind = [i \in Instances |-> INCREMENTAL]

crawler == <<seen, index, fallback, faults, kind, phase, clients, sched,
             pipeline, history>>

\* the URLs the in-scope test is called on
ScopeUrls ==
  [userinfo : {"", "user"},
   host : {<<"nankai", "edu", "cn">>, <<"www", "nankai", "edu", "cn">>,
           <<"evilnankai", "edu", "cn">>, <<"evil", "com">>},
   port : {"", "8080"}]

\* the in-scope test of parse and start_requests on a URL
InScope ==
  /\ call.fn = "none"
  /\ \E u \in ScopeUrls :
       call' = [fn |-> "in_scope", arg |-> u,
                out |-> NetlocAllowed(Netloc(u.userinfo, u.host, u.port))]
  /\ UNCHANGED crawler

\* --- extract_content
\* len(content_text) > 100, len(content_text) < 100
MinContentLength == 100

\* len of the joined text of one selector: 0 when the selector matches nothing
TextLengths == {0, 40, MinContentLength, MinContentLength + 1}

\* a page: for each selector of content_selectors, in list order, the length
\* of the text it selects
Pages == [1..NumSelectors -> TextLengths]

\* the loop over content_selectors: the selector whose text content_text
\* holds when the loop ends (0: content_text is still ""), cur being that
\* selector before entry k is tried
RECURSIVE ContentLoop(_, _, _)
ContentLoop(page, k, cur) ==
  IF k > NumSelectors THEN cur
  ELSE IF page[k] = 0 THEN ContentLoop(page, k + 1, cur)
  ELSE IF page[k] > MinContentLength THEN k
  ELSE ContentLoop(page, k + 1, k)

\* extract_content: the text that is cleaned and returned
ExtractContentOf(page) ==
  LET cur == ContentLoop(page, 1, 0)
  IN  IF cur = 0 \/ page[cur] < MinContentLength
      THEN <<"body">>
      ELSE <<"selector", cur>>

ExtractContent ==
  /\ call.fn = "none"
  /\ \E page \in Pages :
       call' = [fn |-> "extract_content", arg |-> page,
                out |-> ExtractContentOf(page)]
  /\ UNCHANGED crawler

\* --- extract_title
\* .get() finding no text node
None == <<"None">>
SPACE == " "
NEWLINE == "\n"
\* the text of the first <title>, or of the first <h1>, text node
TitleTexts ==
  {None} \cup {<<a>> : a \in {SPACE, "T"}}
         \cup {<<a, b>> : a, b \in {SPACE, "T"}}

\* str.strip(): leading and trailing whitespace removed
RECURSIVE LStrip(_)
LStrip(s) ==
  IF s # <<>> /\ Head(s) \in {SPACE, NEWLINE} THEN LStrip(Tail(s)) ELSE s
RECURSIVE RStrip(_)
RStrip(s) ==
  IF s # <<>> /\ s[Len(s)] \in {SPACE, NEWLINE}
  THEN RStrip(SubSeq(s, 1, Len(s) - 1))
  ELSE s
Strip(s) == RStrip(LStrip(s))

\* the literal extract_title returns last (three CJK characters)
NO_TITLE == <<"U+65E0 U+6807 U+9898">>

\* extract_title
ExtractTitleOf(title, h1) ==
  IF title # None /\ title # <<>> THEN Strip(title)
  ELSE IF h1 # None /\ h1 # <<>> THEN Strip(h1)
  ELSE NO_TITLE

ExtractTitle ==
  /\ call.fn = "none"
  /\ \E title, h1 \in TitleTexts :
       call' = [fn |-> "extract_title", arg |-> <<title, h1>>,
                out |-> ExtractTitleOf(title, h1)]
  /\ UNCHANGED crawler

\* --- clean_text of the spiders
\* a CJK character (U+5357), a latin letter, whitespace, a character no
\* allow-list names, the tag delimiters and the backslash
CJK == "U+5357"
BACKSLASH == "\\"
Chars == {CJK, "s", SPACE, NEWLINE, "#", "<", ">", BACKSLASH}

RECURSIVE StringsOfLen(_)
StringsOfLen(n) ==
  IF n = 0 THEN {<<>>}
  ELSE {<<c>> \o t : c \in Chars, t \in StringsOfLen(n - 1)}
Texts == UNION {StringsOfLen(n) : n \in 0..MaxTextLen}

\* re.sub(r"<[^>]+>", " ", text): a "<", one or more characters other than
\* ">", and the first ">" after them become one space
RECURSIVE SubTags(_)
SubTags(s) ==
  IF s = <<>> THEN <<>>
  ELSE LET closing == {j \in 2..Len(s) : s[j] = ">"}
           j == CHOOSE m \in closing : \A n \in closing : m <= n
       IN  IF Head(s) = "<" /\ closing # {} /\ j >= 3
           THEN <<SPACE>> \o SubTags(SubSeq(s, j + 1, Len(s)))
           ELSE <<Head(s)>> \o SubTags(Tail(s))

\* re.sub(r"\\s+", " ", text): the pattern of the raw string is a backslash
\* followed by one or more "s"; whitespace does not match it
RECURSIVE DropS(_)
DropS(s) == IF s # <<>> /\ Head(s) = "s" THEN DropS(Tail(s)) ELSE s
RECURSIVE SubBackslashS(_)
SubBackslashS(s) ==
  IF s = <<>> THEN <<>>
  ELSE IF Head(s) = BACKSLASH /\ Len(s) >= 2 /\ s[2] = "s"
       THEN <<SPACE>> \o SubBackslashS(DropS(Tail(s)))
       ELSE <<Head(s)>> \o SubBackslashS(Tail(s))

\* the characters of Chars the class [^\\u4e00-\\u9fa5a-zA-Z0-9\\s...] keeps:
\* in the raw string "\\" is the backslash and "0-\\" the range from "0" to the
\* backslash (with "<" and ">"), then a-z and the space; no CJK range, no \s
SpiderKept == {BACKSLASH, "<", ">", "s", SPACE}
IsSpiderKept(c) == c \in SpiderKept

\* clean_text of the spiders (the script and style patterns match no string
\* over Chars)
CleanTextOf(text) ==
  IF text = <<>> THEN <<>>
  ELSE Strip(SelectSeq(SubBackslashS(SubTags(text)), IsSpiderKept))

CleanText ==
  /\ call.fn = "none"
  /\ \E text \in Texts :
       call' = [fn |-> "clean_text", arg |-> text, out |-> CleanTextOf(text)]
  /\ UNCHANGED crawler

\* --- the key of the seen-set
\* the values of the setting REDIS_CRAWLED_URLS_KEY: its default and another
RedisKeys == {"crawled_urls", "nku:crawled_urls"}
\* the key DuplicatesPipeline uses
PIPELINE_KEY == "crawled_urls"
EmptyDb == [k \in RedisKeys |-> {}]
Sadd(db, key, h) == [db EXCEPT ![key] = @ \cup {h}]
Sismember(db, key, h) == h \in db[key]

\* mark_processed of the pipeline, then _is_url_seen of a spider configured
\* with key, for the same URL
SeenAfterMark(key, u) ==
  Sismember(Sadd(EmptyDb, PIPELINE_KEY, Md5(u)), key, Md5(u))

MarkThenSeen ==
  /\ call.fn = "none"
  /\ \E key \in RedisKeys, u \in {SEED, PAGE} :
       call' = [fn |-> "mark_then_seen", arg |-> <<key, u>>,
                out |-> SeenAfterMark(key, u)]
  /\ UNCHANGED crawler

FuncNext ==
  \/ InScope
  \/ ExtractContent
  \/ ExtractTitle
  \/ CleanText
  \/ MarkThenSeen

FuncSpec == FuncInit /\ [][FuncNext]_vars

(* ----------------------------- properties ------------------------------ *)
Last(q) == q[Len(q)]
Stored(u) == \E d \in index : d.url = u

\* C1: every URL hash in the seen-set has a document stored in the index
\* (the seen-set add happens only after the index-write succeeded).
C1_SeenImpliesStored ==
  \A u \in URLS : Md5(u) \in seen => Stored(u)

C3_TwoEmptyFillsStop ==
  \A i \in Instances :
    (Len(fills[i]) >= 2 /\ fills[i][1] /\ fills[i][2])
      => (Len(fills[i]) = 2 /\ phase[i] = "closed")

C3_Witness ==
  \E i \in Instances : fills[i] = <<TRUE, TRUE>> /\ phase[i] = "closed"

C5_NoDeniedUrlEnqueued ==
  \A i \in Instances : \A u \in fingerprints[i] : ~IsUrlDenied(u)

\* C6: every URL enqueued as a fetch request has a host that equals, or is a
\* subdomain of, an entry of allowed_domains.
C6_OnlyAllowedDomainsEnqueued ==
  \A i \in Instances : \A u \in fingerprints[i] : InAllowedDomains(u)

\* C7: the index holds at most one document per URL, stored under md5(url),
\* whatever the interleaving of the ingestions.
C7_OneDocumentPerUrl ==
  /\ \A d \in index : d.id = Md5(d.url)
  /\ \A d1, d2 \in index : d1.url = d2.url => d1 = d2

\* the same URL went through the index-write of both processes
C7_Witness ==
  \E u \in URLS :
    /\ \A i \in Instances : log[i][u] >= 1 /\ pipe_es[i]
    /\ faults = 0
    /\ Doc(u) \in index

\* C8: an item whose index-write failed fewer times than the retry bound (3)
\* is stored when it leaves the index-write stage.
C8_TransientFailureStillStored ==
  \A i \in Instances :
    (stage[i] = "file" /\ written[i] = "failed") => Stored(item[i])

IsFill(i) == Len(fills'[i]) = Len(fills[i]) + 1
\* the stages of an item that passed the dedupe check
Passed == {"mark", "es", "file"}
\* process i has downloaded u and the item of the response left the pipeline
Processed(i, u) ==
  /\ u \in fingerprints[i] \ queue[i]
  /\ IsHtml(u)
  /\ stage[i] = "none"

\* C11: a fill attempt, the initial one or an idle refill, returns an empty
\* batch only if no URL of the fallback list passes the seen-set filter.
C11_EveryFillFallsBack ==
  [][\A i \in Instances :
       (IsFill(i) /\ lastBatch'[i] = {})
         => \A u \in fallback : redis_client'[i] /\ Md5(u) \in seen]_vars

\* C12: a URL is enqueued only if the seen-set does not contain its hash at
\* the moment of the enqueue (Redis connected, no call failing).
C12_UnseenAtEnqueue ==
  [][\A i \in Instances :
       (redis_client[i] /\ faults' = 0)
         => \A u \in queue'[i] \ queue[i] : Md5(u) \notin seen]_vars

\* C13: of two processes that ingest items with the same URL, with Redis
\* answering every call, at most one passes the dedupe check.
C13_AtMostOnePassesDedupe ==
  \A i, j \in Instances :
    (i # j /\ faults = 0 /\ item[i] # NoItem /\ item[i] = item[j])
      => ~(stage[i] \in Passed /\ stage[j] \in Passed)

\* C14 as stated: without a Redis client the membership test of the dedupe
\* stage treats every URL as not seen.
C14_FailOpenEverywhere ==
  [][\A i \in Instances :
       (stage[i] = "dedupe" /\ ~pipe_redis[i] /\ stage'[i] # "dedupe")
         => stage'[i] = "mark"]_vars

\* C14 amended: the membership test of the spiders fails open: a fill of a
\* process without Redis client returns what the index gives with no seen
\* filter, and the crawl goes on.  The dedupe stage without Redis client
\* falls back to the set of the process: the item passes unless the process
\* itself marked the URL there.
C14_FailOpenOrLocal ==
  [][\A i \in Instances :
       /\ (/\ IsFill(i)
           /\ phase[i] = "running"
           /\ ~redis_client[i]
           /\ es_client[i]
           /\ faults' = faults)
            => /\ LET c == {h \in HitHrefs : IsHttp(h) /\ ~IsUrlDenied(h)}
                  IN  /\ lastBatch'[i] \subseteq c
                      /\ \/ lastBatch'[i] = c
                         \/ Cardinality(lastBatch'[i]) = crawl_batch_size
               /\ lastBatch'[i] # {} =>
                    /\ phase'[i] = "running"
                    /\ lastBatch'[i] \subseteq fingerprints'[i]
       /\ (stage[i] = "dedupe" /\ ~pipe_redis[i] /\ stage'[i] # "dedupe")
            => /\ (stage'[i] = "mark") = (Md5(item[i]) \notin seen_urls[i])
               /\ phase'[i] = phase[i]]_vars

\* an idle refill of a process without Redis client returned a URL whose
\* hash is in the seen-set
C14_Witness ==
  \E i \in Instances : \E u \in lastBatch[i] :
    /\ ~redis_client[i]
    /\ es_client[i]
    /\ Len(fills[i]) >= 2
    /\ Md5(u) \in seen
    /\ phase[i] = "running"

\* C15: when every candidate URL the index can return has been attempted by
\* an idle process, its next fill stops it (otherwise the fill, which changes
\* nothing, is repeated on every idle signal).
C15_ExhaustedFrontierStops ==
  [][\A i \in Instances :
       (/\ IsFill(i)
        /\ IsIdle(i)
        /\ es_client[i]
        /\ faults' = 0
        /\ EsCandidates(redis_client[i], TRUE) \subseteq fingerprints[i])
         => phase'[i] = "closed"]_vars

C18_LogFailureChangesNothing ==
  [][\A i \in Instances :
       (stage[i] = "file" /\ stage'[i] # "file" /\ log'[i] = log[i])
         => /\ index' = index
            /\ seen' = seen
            /\ seen_urls' = seen_urls
            /\ queue[i] \subseteq queue'[i]
            /\ phase'[i] = phase[i]]_vars

\* the seed was stored and marked by the only process that has requested
\* anything, which failed to log it and is running
C18_Witness ==
  \E i \in Instances :
    /\ Processed(i, SEED)
    /\ log[i][SEED] = 0
    /\ Doc(SEED) \in index
    /\ Md5(SEED) \in seen
    /\ phase[i] = "running"
    /\ \A j \in Instances \ {i} : fingerprints[j] = {}

\* C19: a process that started with neither Redis nor Elasticsearch reachable
\* has requested no URL.
C19_NoCrawlWithoutStores ==
  \A i \in Instances :
    (/\ phase[i] # "new"
     /\ ~redis_client[i] /\ ~pipe_redis[i]
     /\ ~es_client[i] /\ ~pipe_es[i])
      => fingerprints[i] = {}

\* C20: no step removes a hash from the seen-set.
C20_SeenAppendOnly ==
  [][seen \subseteq seen']_vars

C20_Witness ==
  /\ Md5(SEED) \in seen
  /\ Md5(PAGE) \in seen

HostInScope(host) ==
  \E d \in allowed_domains :
    host = d \/ (Len(host) > Len(d) /\ Suffix(host, Len(d)) = d)

\* C24: the in-scope test accepts a URL exactly when its host, whatever the
\* port or userinfo part, equals an allowed domain or is a subdomain of one.
C24_InScopeIffHostInScope ==
  call.fn = "in_scope" => (call.out = HostInScope(call.arg.host))

\* C25: extract_content returns the text of the first selector whose text is
\* longer than 100 characters, and the text of the body when no selector has
\* such a text.
C25_FirstLongSelectorOrBody ==
  call.fn = "extract_content" =>
    LET long == {k \in 1..NumSelectors : call.arg[k] > MinContentLength}
    IN  IF long = {}
        THEN call.out = <<"body">>
        ELSE call.out = <<"selector", CHOOSE k \in long : \A m \in long : k <= m>>

\* C26: extract_title never returns the empty string, and returns "untitled"
\* when there is neither a <title> nor a <h1> text.
C26_TitleNeverEmpty ==
  call.fn = "extract_title" =>
    /\ call.out # <<>>
    /\ call.arg = <<None, None>> => call.out = <<"untitled">>

IsLetter(c) == c \in {CJK, "s"}
\* C27: of a text without tags or backslashes, clean_text keeps every CJK
\* character and latin letter in order, keeps no character outside the
\* allow-list, and leaves no whitespace but single spaces.
C27_CleanTextKeepsAllowList ==
  (/\ call.fn = "clean_text"
   /\ \A k \in 1..Len(call.arg) : call.arg[k] \notin {"<", ">", BACKSLASH})
    => /\ SelectSeq(call.out, IsLetter) = SelectSeq(call.arg, IsLetter)
       /\ \A k \in 1..Len(call.out) : call.out[k] \in {CJK, "s", SPACE}
       /\ \A k \in 1..Len(call.out) - 1 :
            ~(call.out[k] = SPACE /\ call.out[k + 1] = SPACE)

\* C30: whatever the configured key, a URL marked by the pipeline is found by
\* the membership test of the spiders.
C30_MarkedIsSeenForEveryKey ==
  call.fn = "mark_then_seen" => call.out

C22_FillOnlyWhenDrained ==
  [][\A i \in Instances :
       fills'[i] # fills[i]
         => /\ fills'[i] = Append(fills[i], lastBatch'[i] = {})
            /\ \/ phase[i] = "new"
               \/ /\ phase[i] = "running"
                  /\ startPending[i] = {}
                  /\ queue[i] = {}
                  /\ stage[i] = "none"]_vars

\* a process made its third fill, each after the work of the one before
C22_Witness ==
  \E i \in Instances :
    /\ fills[i] = <<FALSE, FALSE, FALSE>>
    /\ faults = 0
    /\ phase[i] = "running"

\* C23: urls_to_crawl_batch is empty before start-up, whenever the process is
\* idle and after it closed: a fill starts from an empty batch.
C23_BatchDiscardedOnceDrained ==
  \A i \in Instances :
    (phase[i] \in {"new", "closed"} \/ IsIdle(i)) => urls_to_crawl_batch[i] = {}

\* the start batch of an incremental process has been yielded and worked off
C23_Witness ==
  \E i \in Instances :
    /\ kind[i] = INCREMENTAL
    /\ IsIdle(i)
    /\ fills[i] = <<FALSE>>
    /\ lastBatch[i] \subseteq fingerprints[i]
    /\ urls_to_crawl_batch[i] = {}

\* C28: an item that passed the dedupe check has a URL for which this
\* process passed no item before (it has logged none).
C28_PassedOncePerProcess ==
  \A i \in Instances : stage[i] \in Passed => log[i][item[i]] = 0

\* C29: with no call failing, a URL that a process requested and whose
\* response it ingested (item logged, document stored) is in the seen-set.
C29_IngestedHrefIsSeen ==
  \A i \in Instances : \A u \in URLS :
    (/\ Processed(i, u)
     /\ faults = 0
     /\ log[i][FinalUrl(u)] >= 1
     /\ Stored(FinalUrl(u)))
      => Md5(u) \in seen

====
